---- MODULE Spec2Model ----
(***************************************************************************)
(* A model of the cache of fenshitianyue/cache-system (package cache):     *)
(* the Item type, the Cache store with its sync.RWMutex, the background    *)
(* gcLoop and the Save/Load persistence.                                   *)
(*                                                                         *)
(* Time is the integer reading of time.Now().UnixNano(); it advances by    *)
(* Tick between any two steps of any goroutine. Every goroutine is a task  *)
(* with a program counter:                                                 *)
(*   idle   not inside a call; res holds the result of the last call       *)
(*   wlock  inside a call, at c.mu.Lock() (about to call it, or blocked)   *)
(*   wcs    holding the write lock                                         *)
(*   wset   holding the write lock, in Add or Replace, at the call c.set   *)
(*   rlock  inside a call, at c.mu.RLock()                                 *)
(*   rcs    holding a read lock                                            *)
(*   send   inside StopGc, at the send on the unbuffered channel stopGc     *)
(* and, for the gc goroutine: start (launched by NewCache, not yet in       *)
(* gcLoop), select (waiting in gcLoop's select), stop (the stop signal      *)
(* received), done (returned from gcLoop) and panic (time.NewTicker         *)
(* panicked, which ends the program).                                       *)
(* A goroutine blocked in Lock is one that has not been granted the lock   *)
(* yet, so the two are one state.                                          *)
(***************************************************************************)
EXTENDS Integers, FiniteSets, Sequences, TLC

\* ---------------------------------------------------------------- bounds
MaxTime == 2
MaxReaders == 2

\* ------------------------------------------------------ program constants
NoExpiration == -1
DefaultExpiration == 0

\* ------------------------------------------------------------ input sets
Callers == {1, 2, 3}
gc == 0
Tasks == Callers \cup {gc}
Keys == {"a", "b"}
Nil == "nil"
\* the value caller p passes to Set, Add and Replace
ValueOf(p) == IF p = 1 THEN "x" ELSE IF p = 2 THEN "y" ELSE "w"
Durations == {NoExpiration, DefaultExpiration, 1}
DefaultExpirations == {DefaultExpiration, 2}

\* the arguments of NewCache
GcIntervals == {-1, 0, 1}

VARIABLES now, defaultExpiration, gcInterval, items, mu, pc, op, res, waited,
          sink, saved, fresh

vars == <<now, defaultExpiration, gcInterval, items, mu, pc, op, res, waited,
          sink, saved, fresh>>

\* the fields of the Cache that no method assigns
config == <<defaultExpiration, gcInterval>>
\* what lies outside the Cache: the stream a Save wrote (sink), the items
\* that were not expired when that Save encoded them (saved, history), and
\* the items of a second, freshly constructed Cache that loads the stream
\* (fresh)
disk == <<sink, saved, fresh>>

\* ------------------------------------------------------------------ Item
Item(v, e) == [Object |-> v, Expiration |-> e]

\* Expired as it would be with >= for >: an item expires at its deadline
Expired_AtDeadline(item, t) ==
  IF item.Expiration = 0 THEN FALSE ELSE t >= item.Expiration

\* Item.Expired, with t the reading of time.Now().UnixNano()
Expired(item, t) ==
  IF item.Expiration = 0 THEN FALSE ELSE t > item.Expiration

\* ------------------------------------------------------- map[string]Item
EmptyMap == [x \in {} |-> Item(Nil, 0)]

Put(m, k, it) == [x \in DOMAIN m \cup {k} |-> IF x = k THEN it ELSE m[x]]

\* delete as it would be if it cleared the map
delete_All(m, k) == EmptyMap

\* c.delete: the builtin delete on c.items
delete(m, k) == [x \in DOMAIN m \ {k} |-> m[x]]

\* get as it would be without the test of item.Expired()
get_NoExpiry(m, k, t) ==
  IF k \notin DOMAIN m THEN [val |-> Nil, found |-> FALSE]
  ELSE [val |-> m[k].Object, found |-> TRUE]

\* c.get: (value, found) of k in m at time t; the caller holds the lock
get(m, k, t) ==
  IF k \notin DOMAIN m THEN [val |-> Nil, found |-> FALSE]
  ELSE IF Expired(m[k], t) THEN [val |-> Nil, found |-> FALSE]
  ELSE [val |-> m[k].Object, found |-> TRUE]

\* The duration Set works with: the default replaces DefaultExpiration
Resolve(d, D) == IF d = DefaultExpiration THEN D ELSE d

\* Expiration as it would be with d >= 0 for d > 0
Expiration_ZeroExpires(d, D, t) ==
  IF Resolve(d, D) >= 0 THEN t + Resolve(d, D) ELSE 0

\* The expiration Set computes for duration d under default D at time t
Expiration(d, D, t) == IF Resolve(d, D) > 0 THEN t + Resolve(d, D) ELSE 0

\* c.set: the unlocked write Add and Replace call
set(m, k, v, d, D, t) == Put(m, k, Item(v, Expiration(d, D, t)))

\* Sweep as it would be with v.Expiration >= 0 for v.Expiration > 0
Sweep_ZeroExpires(m, t) ==
  LET dead == {k \in DOMAIN m : m[k].Expiration >= 0 /\ t > m[k].Expiration}
  IN  [x \in DOMAIN m \ dead |-> m[x]]

\* Sweep as it would be with now >= v.Expiration for now > v.Expiration
Sweep_AtDeadline(m, t) ==
  LET dead == {k \in DOMAIN m : m[k].Expiration > 0 /\ t >= m[k].Expiration}
  IN  [x \in DOMAIN m \ dead |-> m[x]]

\* The loop of DeleteExpired with reference time t
Sweep(m, t) ==
  LET dead == {k \in DOMAIN m : m[k].Expiration > 0 /\ t > m[k].Expiration}
  IN  [x \in DOMAIN m \ dead |-> m[x]]

\* Merge as it would be if every decoded entry overwrote the live one
Merge_Overwrite(m, dm, t) ==
  [x \in DOMAIN m \cup DOMAIN dm |-> IF x \in DOMAIN dm THEN dm[x] ELSE m[x]]

\* The loop of Load merging the decoded items dm into m at time t
Merge(m, dm, t) ==
  [x \in DOMAIN m \cup DOMAIN dm |->
     IF x \in DOMAIN dm /\ (x \notin DOMAIN m \/ Expired(m[x], t))
       THEN dm[x] ELSE m[x]]

\* ------------------------------------------------------------- streams
\* What a reader can hold: a malformed stream, or the encoding of a mapping
\* gob sends a struct as the fields that differ from their zero value and
\* leaves the other fields of the receiving struct as they are, zero in a
\* new Item; a field on the wire is <<>> when omitted, <<value>> when sent
EncodeItem_NoExpiration(it) ==
  [Object |-> IF it.Object = Nil THEN <<>> ELSE <<it.Object>>,
   Expiration |-> <<>>]

EncodeItem(it) ==
  [Object |-> IF it.Object = Nil THEN <<>> ELSE <<it.Object>>,
   Expiration |-> IF it.Expiration = 0 THEN <<>> ELSE <<it.Expiration>>]

DecodeItem(w) ==
  Item(IF w.Object = <<>> THEN Nil ELSE w.Object[1],
       IF w.Expiration = <<>> THEN 0 ELSE w.Expiration[1])

\* a stream nothing can be decoded from: empty, truncated or not gob
Malformed == [valid |-> FALSE, items |-> EmptyMap]

\* enc.Encode(&c.items)
Encode(m) == [valid |-> TRUE, items |-> [k \in DOMAIN m |-> EncodeItem(m[k])]]

LoadItems == {Item("z", -1), Item("z", 0), Item("z", 1)}
Mappings == UNION {[S -> LoadItems] : S \in SUBSET Keys}
Streams == {Malformed} \cup {Encode(m) : m \in Mappings}

\* dec.Decode(&items)
Decode(s) ==
  IF s.valid
    THEN [err |-> FALSE,
          items |-> [k \in DOMAIN s.items |-> DecodeItem(s.items[k])]]
    ELSE [err |-> TRUE, items |-> EmptyMap]

\* ------------------------------------------------------------- RWMutex
Unlocked == [w |-> -1, r |-> 0]
WFree(m) == m.w = -1 /\ m.r = 0
RFree(m) == m.w = -1
WUnlock(m) == [m EXCEPT !.w = -1]
RUnlock(m) == [m EXCEPT !.r = m.r - 1]

\* ------------------------------------------------------ calls and results
\* op: the call a task is in, with its arguments and locals (t0: the clock
\* it read; e: the expiration it computed; m: the items Load decoded;
\* race: whether an Add was called on a key no concurrent Add had won yet)
NoOp == [name |-> "none", k |-> Nil, d |-> 0, t0 |-> 0, e |-> 0, m |-> EmptyMap,
         race |-> FALSE]
Call(name) == [NoOp EXCEPT !.name = name]
\* res: what the last call returned (ok: no error, or found; val: the value
\* returned or written; n: the count returned, the expiration written or
\* the number of entries removed or installed; kept: the number of decoded
\* entries a Load discarded)
NoRes == [name |-> "none", k |-> Nil, ok |-> TRUE, val |-> Nil, n |-> 0,
          kept |-> 0, race |-> FALSE]
Res(name, k, ok, val, n) ==
  [name |-> name, k |-> k, ok |-> ok, val |-> val, n |-> n, kept |-> 0,
   race |-> FALSE]

\* waited (history): for a key whose entry was written by a Set with a
\* positive time-to-live, the time that Set spent between reading the
\* clock and writing the entry; NotSet for every other key
NotSet == -1
Forget(S) == waited' = [k \in Keys |-> IF k \in S THEN NotSet ELSE waited[k]]

Home(p) == IF p = gc THEN "select" ELSE "idle"

\* a task leaves its call: back to the caller with the result r, or to
\* gcLoop's select, which takes no result
Return(p, r) ==
  /\ pc' = [pc EXCEPT ![p] = Home(p)]
  /\ op' = [op EXCEPT ![p] = NoOp]
  /\ res' = [res EXCEPT ![p] = IF p = gc THEN NoRes ELSE r]

\* a caller enters a call and reaches its first lock operation
Enter(p, o, at) ==
  /\ pc[p] = "idle"
  /\ pc' = [pc EXCEPT ![p] = at]
  /\ op' = [op EXCEPT ![p] = o]
  /\ res' = [res EXCEPT ![p] = NoRes]

\* no Save has written the stream yet
NotSaved == [done |-> FALSE, items |-> EmptyMap]

\* the entries of m that are not expired at time t
Live(m, t) == [k \in {x \in DOMAIN m : ~Expired(m[x], t)} |-> m[k]]

\* NewCache has returned and gcLoop waits in its select
Init ==
  /\ now = 0
  /\ defaultExpiration \in DefaultExpirations
  /\ items = EmptyMap
  /\ mu = Unlocked
  /\ pc = [p \in Tasks |-> Home(p)]
  /\ op = [p \in Tasks |-> NoOp]
  /\ res = [p \in Tasks |-> NoRes]
  /\ waited = [k \in Keys |-> NotSet]
  /\ gcInterval \in {d \in GcIntervals : d > 0}
  /\ sink = Malformed
  /\ saved = NotSaved
  /\ fresh = EmptyMap

\* time.Now() advances
Tick ==
  /\ now < MaxTime
  /\ now' = now + 1
  /\ UNCHANGED <<config, disk, items, mu, pc, op, res, waited>>

\* Lock as it would be if it did not wait for the lock to be free
Lock_NoWait(p) ==
  /\ pc[p] = "wlock"
  /\ mu' = [mu EXCEPT !.w = p]
  /\ pc' = [pc EXCEPT ![p] = "wcs"]
  /\ UNCHANGED <<now, config, disk, items, op, res, waited>>

\* c.mu.Lock() returns: no writer and no reader holds the lock
Lock(p) ==
  /\ pc[p] = "wlock"
  /\ WFree(mu)
  /\ mu' = [mu EXCEPT !.w = p]
  /\ pc' = [pc EXCEPT ![p] = "wcs"]
  /\ UNCHANGED <<now, config, disk, items, op, res, waited>>

\* RLock as it would be if it did not wait for the writer
RLock_NoWait(p) ==
  /\ pc[p] = "rlock"
  /\ mu.r < MaxReaders
  /\ mu' = [mu EXCEPT !.r = mu.r + 1]
  /\ pc' = [pc EXCEPT ![p] = "rcs"]
  /\ UNCHANGED <<now, config, disk, items, op, res, waited>>

\* c.mu.RLock() returns: no writer holds the lock
RLock(p) ==
  /\ pc[p] = "rlock"
  /\ RFree(mu)
  /\ mu.r < MaxReaders
  /\ mu' = [mu EXCEPT !.r = mu.r + 1]
  /\ pc' = [pc EXCEPT ![p] = "rcs"]
  /\ UNCHANGED <<now, config, disk, items, op, res, waited>>

\* Cache.Set up to c.mu.Lock(): the expiration is computed before the lock
Set(p, k, d) ==
  /\ Enter(p, [Call("Set") EXCEPT !.k = k, !.d = d,
                 !.t0 = IF Resolve(d, defaultExpiration) > 0 THEN now ELSE 0,
                 !.e = Expiration(d, defaultExpiration, now)], "wlock")
  /\ UNCHANGED <<now, config, disk, items, mu, waited>>

\* Set as it would be if it computed the expiration under the lock
SetLocked_AtWrite(p) ==
  /\ pc[p] = "wcs" /\ op[p].name = "Set"
  /\ items' = Put(items, op[p].k,
                  Item(ValueOf(p), Expiration(op[p].d, defaultExpiration, now)))
  /\ mu' = WUnlock(mu)
  /\ Return(p, Res("Set", op[p].k, TRUE, ValueOf(p), items'[op[p].k].Expiration))
  /\ waited' = [waited EXCEPT ![op[p].k] =
                  IF Resolve(op[p].d, defaultExpiration) > 0
                    THEN now - op[p].t0 ELSE NotSet]
  /\ UNCHANGED <<now, config, disk>>

\* Cache.Set under the lock: the write and the deferred Unlock
SetLocked(p) ==
  /\ pc[p] = "wcs" /\ op[p].name = "Set"
  /\ items' = Put(items, op[p].k, Item(ValueOf(p), op[p].e))
  /\ mu' = WUnlock(mu)
  /\ Return(p, Res("Set", op[p].k, TRUE, ValueOf(p), op[p].e))
  /\ waited' = [waited EXCEPT ![op[p].k] =
                  IF Resolve(op[p].d, defaultExpiration) > 0
                    THEN now - op[p].t0 ELSE NotSet]
  /\ UNCHANGED <<now, config, disk>>

\* Cache.Get up to c.mu.RLock()
Get(p, k) ==
  /\ Enter(p, [Call("Get") EXCEPT !.k = k], "rlock")
  /\ UNCHANGED <<now, config, disk, items, mu, waited>>

\* Cache.Get under the read lock: the return on an expired item skips RUnlock
GetLocked(p) ==
  /\ pc[p] = "rcs" /\ op[p].name = "Get"
  /\ LET k == op[p].k IN
       IF k \notin DOMAIN items
         THEN mu' = RUnlock(mu) /\ Return(p, Res("Get", k, FALSE, Nil, 0))
         ELSE IF Expired(items[k], now)
           THEN mu' = mu /\ Return(p, Res("Get", k, FALSE, Nil, 0))
           ELSE /\ mu' = RUnlock(mu)
                /\ Return(p, Res("Get", k, TRUE, items[k].Object, 0))
  /\ UNCHANGED <<now, config, disk, items, waited>>

\* Cache.Add up to c.mu.Lock()
Add(p, k, d) ==
  /\ Enter(p, [Call("Add") EXCEPT !.k = k, !.d = d,
                 !.race = /\ ~get(items, k, now).found
                          /\ \A q \in Callers \ {p} :
                               ~(res[q].name = "Add" /\ res[q].k = k)],
           "wlock")
  /\ UNCHANGED <<now, config, disk, items, mu, waited>>

\* Cache.Add under the lock: the check, and the return of the error
AddLocked(p) ==
  /\ pc[p] = "wcs" /\ op[p].name = "Add"
  /\ IF get(items, op[p].k, now).found
       THEN /\ mu' = WUnlock(mu)
            /\ Return(p, [Res("Add", op[p].k, FALSE, ValueOf(p), 0)
                            EXCEPT !.race = op[p].race])
       ELSE /\ pc' = [pc EXCEPT ![p] = "wset"]
            /\ UNCHANGED <<mu, op, res>>
  /\ UNCHANGED <<now, config, disk, items, waited>>

\* Cache.Add under the lock: c.set, Unlock and the return of nil
AddSet(p) ==
  /\ pc[p] = "wset" /\ op[p].name = "Add"
  /\ items' = set(items, op[p].k, ValueOf(p), op[p].d, defaultExpiration, now)
  /\ Forget({op[p].k})
  /\ mu' = WUnlock(mu)
  /\ Return(p, [Res("Add", op[p].k, TRUE, ValueOf(p), items'[op[p].k].Expiration)
                  EXCEPT !.race = op[p].race])
  /\ UNCHANGED <<now, config, disk>>

\* Cache.Replace up to c.mu.Lock()
Replace(p, k, d) ==
  /\ Enter(p, [Call("Replace") EXCEPT !.k = k, !.d = d], "wlock")
  /\ UNCHANGED <<now, config, disk, items, mu, waited>>

\* Replace as it would be if it went on to c.set whatever c.get found
ReplaceLocked_NoCheck(p) ==
  /\ pc[p] = "wcs" /\ op[p].name = "Replace"
  /\ pc' = [pc EXCEPT ![p] = "wset"]
  /\ UNCHANGED <<now, config, disk, items, mu, op, res, waited>>

\* Cache.Replace under the lock: the check, and the return of the error
ReplaceLocked(p) ==
  /\ pc[p] = "wcs" /\ op[p].name = "Replace"
  /\ IF ~get(items, op[p].k, now).found
       THEN /\ mu' = WUnlock(mu)
            /\ Return(p, Res("Replace", op[p].k, FALSE, ValueOf(p), 0))
       ELSE /\ pc' = [pc EXCEPT ![p] = "wset"]
            /\ UNCHANGED <<mu, op, res>>
  /\ UNCHANGED <<now, config, disk, items, waited>>

\* Cache.Replace under the lock: c.set, Unlock and the return of nil
ReplaceSet(p) ==
  /\ pc[p] = "wset" /\ op[p].name = "Replace"
  /\ items' = set(items, op[p].k, ValueOf(p), op[p].d, defaultExpiration, now)
  /\ Forget({op[p].k})
  /\ mu' = WUnlock(mu)
  /\ Return(p, Res("Replace", op[p].k, TRUE, ValueOf(p), items'[op[p].k].Expiration))
  /\ UNCHANGED <<now, config, disk>>

\* Cache.Delete up to c.mu.Lock()
Delete(p, k) ==
  /\ Enter(p, [Call("Delete") EXCEPT !.k = k], "wlock")
  /\ UNCHANGED <<now, config, disk, items, mu, waited>>

\* Cache.Delete under the lock
DeleteLocked(p) ==
  /\ pc[p] = "wcs" /\ op[p].name = "Delete"
  /\ items' = delete(items, op[p].k)
  /\ mu' = WUnlock(mu)
  /\ Return(p, Res("Delete", op[p].k, TRUE, Nil, 0))
  /\ Forget({op[p].k})
  /\ UNCHANGED <<now, config, disk>>

\* Cache.DeleteExpired up to c.mu.Lock(): now is read before the lock
DeleteExpired(p) ==
  /\ Enter(p, [Call("DeleteExpired") EXCEPT !.t0 = now], "wlock")
  /\ UNCHANGED <<now, config, disk, items, mu, waited>>

\* Cache.DeleteExpired under the lock: the scan and the deferred Unlock
DeleteExpiredLocked(p) ==
  /\ pc[p] = "wcs" /\ op[p].name = "DeleteExpired"
  /\ items' = Sweep(items, op[p].t0)
  /\ mu' = WUnlock(mu)
  /\ Return(p, Res("DeleteExpired", Nil, TRUE, Nil,
                   Cardinality(DOMAIN items) - Cardinality(DOMAIN items')))
  /\ Forget(DOMAIN items \ DOMAIN items')
  /\ UNCHANGED <<now, config, disk>>

\* Cache.Flush up to c.mu.Lock()
Flush(p) ==
  /\ Enter(p, Call("Flush"), "wlock")
  /\ UNCHANGED <<now, config, disk, items, mu, waited>>

\* Cache.Flush under the lock
FlushLocked(p) ==
  /\ pc[p] = "wcs" /\ op[p].name = "Flush"
  /\ items' = EmptyMap
  /\ mu' = WUnlock(mu)
  /\ Return(p, Res("Flush", Nil, TRUE, Nil, 0))
  /\ Forget(Keys)
  /\ UNCHANGED <<now, config, disk>>

\* Cache.Count up to c.mu.RLock()
Count(p) ==
  /\ Enter(p, Call("Count"), "rlock")
  /\ UNCHANGED <<now, config, disk, items, mu, waited>>

\* Count as it would be if it counted the items that are not expired
CountLocked_Live(p) ==
  /\ pc[p] = "rcs" /\ op[p].name = "Count"
  /\ mu' = RUnlock(mu)
  /\ Return(p, Res("Count", Nil, TRUE, Nil,
                   Cardinality({k \in DOMAIN items : ~Expired(items[k], now)})))
  /\ UNCHANGED <<now, config, disk, items, waited>>

\* Cache.Count under the read lock
CountLocked(p) ==
  /\ pc[p] = "rcs" /\ op[p].name = "Count"
  /\ mu' = RUnlock(mu)
  /\ Return(p, Res("Count", Nil, TRUE, Nil, Cardinality(DOMAIN items)))
  /\ UNCHANGED <<now, config, disk, items, waited>>

\* Load as it would be if it merged whatever a failed decode left in items
Load_IgnoreErr(p, s) ==
  /\ pc[p] = "idle"
  /\ pc' = [pc EXCEPT ![p] = "wlock"]
  /\ op' = [op EXCEPT ![p] = [NoOp EXCEPT !.name = "Load", !.m = Decode(s).items]]
  /\ res' = [res EXCEPT ![p] = NoRes]
  /\ UNCHANGED <<now, config, disk, items, mu, waited>>

\* Cache.Load: the decode, and on success the way to c.mu.Lock()
Load(p, s) ==
  /\ pc[p] = "idle"
  /\ IF Decode(s).err
       THEN Return(p, Res("Load", Nil, FALSE, Nil, 0))
       ELSE /\ pc' = [pc EXCEPT ![p] = "wlock"]
            /\ op' = [op EXCEPT ![p] = [Call("Load") EXCEPT !.m = Decode(s).items]]
            /\ res' = [res EXCEPT ![p] = NoRes]
  /\ UNCHANGED <<now, config, disk, items, mu, waited>>

\* Cache.Load under the lock: the merge and the deferred Unlock
LoadLocked(p) ==
  /\ pc[p] = "wcs" /\ op[p].name = "Load"
  /\ items' = Merge(items, op[p].m, now)
  /\ mu' = WUnlock(mu)
  /\ LET new == {k \in DOMAIN op[p].m :
                    k \notin DOMAIN items \/ Expired(items[k], now)}
     IN  Return(p, [Res("Load", Nil, TRUE, Nil, Cardinality(new))
                      EXCEPT !.kept = Cardinality(DOMAIN op[p].m \ new)])
  /\ Forget({k \in DOMAIN op[p].m : k \notin DOMAIN items \/ Expired(items[k], now)})
  /\ UNCHANGED <<now, config, disk>>

\* Cache.Save up to c.mu.RLock()
Save(p) ==
  /\ Enter(p, Call("Save"), "rlock")
  /\ UNCHANGED <<now, config, disk, items, mu, waited>>

\* Cache.Save under the read lock: the encoding of c.items into w, which
\* the writer takes whole or fails on (or gob panics, and Save recovers);
\* the deferred RUnlock runs in each case
SaveLocked(p) ==
  /\ pc[p] = "rcs" /\ op[p].name = "Save"
  /\ \E ok \in BOOLEAN :
       /\ sink' = IF ok THEN Encode(items) ELSE Malformed
       /\ saved' = IF ok THEN [done |-> TRUE, items |-> Live(items, now)]
                    ELSE NotSaved
       /\ Return(p, Res("Save", Nil, ok, Nil, 0))
  /\ mu' = RUnlock(mu)
  /\ UNCHANGED <<now, config, items, waited, fresh>>

\* NewCache followed by Load of the saved stream, on a second Cache that
\* only the loading goroutine knows: the decode, and the merge into the
\* empty items of the new Cache
LoadFresh ==
  /\ ~Decode(sink).err
  /\ fresh' = Merge(EmptyMap, Decode(sink).items, now)
  /\ UNCHANGED <<now, config, items, mu, pc, op, res, waited, sink, saved>>

\* gcLoop: the ticker fires and the loop calls DeleteExpired
gcLoop ==
  /\ pc[gc] = "select"
  /\ pc' = [pc EXCEPT ![gc] = "wlock"]
  /\ op' = [op EXCEPT ![gc] = [Call("DeleteExpired") EXCEPT !.t0 = now]]
  /\ UNCHANGED <<now, config, disk, items, mu, res, waited>>

\* gcLoop starts: time.NewTicker panics on an interval that is not positive
gcLoopStart ==
  /\ pc[gc] = "start"
  /\ pc' = [pc EXCEPT ![gc] = IF gcInterval <= 0 THEN "panic" ELSE "select"]
  /\ UNCHANGED <<now, config, disk, items, mu, op, res, waited>>

\* Cache.StopGc up to the send on c.stopGc, which waits for a receiver
StopGc(p) ==
  /\ Enter(p, Call("StopGc"), "send")
  /\ UNCHANGED <<now, config, disk, items, mu, waited>>

\* gcLoop as it would be if it went back to the select after the signal
gcLoopStop_Continue ==
  /\ pc[gc] = "select"
  /\ \E p \in Callers :
       /\ pc[p] = "send"
       /\ pc' = [pc EXCEPT ![p] = "idle"]
       /\ op' = [op EXCEPT ![p] = NoOp]
       /\ res' = [res EXCEPT ![p] = Res("StopGc", Nil, TRUE, Nil, 0)]
  /\ UNCHANGED <<now, config, disk, items, mu, waited>>

\* gcLoop: the select receives from c.stopGc, which lets one StopGc return
gcLoopStop ==
  /\ pc[gc] = "select"
  /\ \E p \in Callers :
       /\ pc[p] = "send"
       /\ pc' = [pc EXCEPT ![p] = "idle", ![gc] = "stop"]
       /\ op' = [op EXCEPT ![p] = NoOp]
       /\ res' = [res EXCEPT ![p] = Res("StopGc", Nil, TRUE, Nil, 0)]
  /\ UNCHANGED <<now, config, disk, items, mu, waited>>

\* gcLoop: ticker.Stop() and the return
gcLoopReturn ==
  /\ pc[gc] = "stop"
  /\ pc' = [pc EXCEPT ![gc] = "done"]
  /\ UNCHANGED <<now, config, disk, items, mu, op, res, waited>>

\* One goroutine calls the cache while the gc goroutine sweeps
Next ==
  \/ Tick
  \/ \E p \in {1, gc} : Lock(p)
  \/ RLock(1)
  \/ \E k \in Keys, d \in Durations : Set(1, k, d)
  \/ SetLocked(1)
  \/ \E k \in Keys : Get(1, k)
  \/ GetLocked(1)
  \/ \E k \in Keys, d \in Durations : Add(1, k, d)
  \/ AddLocked(1)
  \/ AddSet(1)
  \/ \E k \in Keys, d \in Durations : Replace(1, k, d)
  \/ ReplaceLocked(1)
  \/ ReplaceSet(1)
  \/ \E k \in Keys : Delete(1, k)
  \/ DeleteLocked(1)
  \/ DeleteExpired(1)
  \/ \E p \in {1, gc} : DeleteExpiredLocked(p)
  \/ Flush(1)
  \/ FlushLocked(1)
  \/ Count(1)
  \/ CountLocked(1)
  \/ \E s \in Streams : Load(1, s)
  \/ LoadLocked(1)
  \/ gcLoop

Spec == Init /\ [][Next]_vars

\* The callers call Add concurrently for one key, which Get would not find
\* and for which no other caller's Add has returned, while the gc goroutine
\* sweeps
NextAdd ==
  \/ Tick
  \/ \E p \in Tasks : Lock(p)
  \/ \E p \in Callers, d \in Durations : Add(p, "a", d) /\ op'[p].race
  \/ \E p \in Callers : AddLocked(p)
  \/ \E p \in Callers : AddSet(p)
  \/ DeleteExpiredLocked(gc)
  \/ gcLoop

SpecAdd == Init /\ [][NextAdd]_vars

\* One goroutine writes and reads, another saves the cache to a stream,
\* which a new Cache loads, while the gc goroutine sweeps; one Save
\* succeeds, and the new Cache loads once
NextSave ==
  \/ Tick
  \/ \E p \in {1, gc} : Lock(p)
  \/ \E p \in {1, 2} : RLock(p)
  \/ \E k \in Keys, d \in Durations : Set(1, k, d)
  \/ SetLocked(1)
  \/ \E k \in Keys : Get(1, k)
  \/ GetLocked(1)
  \/ Count(1)
  \/ CountLocked(1)
  \/ Load(1, Encode([k \in Keys |-> Item("z", 1)]))
  \/ LoadLocked(1)
  \/ Save(2) /\ ~saved.done
  \/ SaveLocked(2)
  \/ LoadFresh /\ fresh = EmptyMap
  \/ DeleteExpiredLocked(gc)
  \/ gcLoop

SpecSave == Init /\ [][NextSave]_vars

\* NewCache has returned, with any gcInterval, and the gc goroutine it
\* launched has not run yet
InitGc ==
  /\ now = 0
  /\ defaultExpiration \in DefaultExpirations
  /\ gcInterval \in GcIntervals
  /\ items = EmptyMap
  /\ mu = Unlocked
  /\ pc = [p \in Tasks |-> IF p = gc THEN "start" ELSE "idle"]
  /\ op = [p \in Tasks |-> NoOp]
  /\ res = [p \in Tasks |-> NoRes]
  /\ waited = [k \in Keys |-> NotSet]
  /\ sink = Malformed
  /\ saved = NotSaved
  /\ fresh = EmptyMap

\* The life of the gc goroutine: one goroutine writes, reads and loads,
\* another calls StopGc
NextGc ==
  \/ Tick
  \/ gcLoopStart
  \/ gcLoop
  \/ \E p \in {1, gc} : Lock(p)
  \/ DeleteExpiredLocked(gc)
  \/ gcLoopStop
  \/ gcLoopReturn
  \/ StopGc(2)
  \/ \E k \in Keys, d \in Durations : Set(1, k, d)
  \/ SetLocked(1)
  \/ RLock(1)
  \/ \E k \in Keys : Get(1, k)
  \/ GetLocked(1)
  \/ Load(1, Encode([k \in {"a"} |-> Item("z", -1)]))
  \/ LoadLocked(1)

SpecGc == InitGc /\ [][NextGc]_vars

\* The scheduler lets every goroutine that can run do so; the lock is
\* granted, and a ready case of the select is chosen, to a goroutine that
\* is ready again and again
FairSpecGc ==
  /\ SpecGc
  /\ WF_vars(gcLoopStart)
  /\ WF_vars(gcLoop)
  /\ SF_vars(Lock(gc))
  /\ WF_vars(DeleteExpiredLocked(gc))
  /\ SF_vars(gcLoopStop)
  /\ WF_vars(gcLoopReturn)
  /\ SF_vars(Lock(1))
  /\ WF_vars(SetLocked(1))
  /\ WF_vars(RLock(1))
  /\ WF_vars(GetLocked(1))
  /\ WF_vars(LoadLocked(1))

\* The writes alone, over every sign of the duration and of the default:
\* the arguments d of Set, Add and Replace, and the defaultExpiration of
\* NewCache
AllDurations == {-2, NoExpiration, DefaultExpiration, 1, 2}
AllDefaultExpirations == {-2, NoExpiration, DefaultExpiration, 1, 2}

InitSet ==
  /\ now = 0
  /\ defaultExpiration \in AllDefaultExpirations
  /\ items = EmptyMap
  /\ mu = Unlocked
  /\ pc = [p \in Tasks |-> Home(p)]
  /\ op = [p \in Tasks |-> NoOp]
  /\ res = [p \in Tasks |-> NoRes]
  /\ waited = [k \in Keys |-> NotSet]
  /\ gcInterval \in {d \in GcIntervals : d > 0}
  /\ sink = Malformed
  /\ saved = NotSaved
  /\ fresh = EmptyMap

NextSet ==
  \/ Tick
  \/ Lock(1)
  \/ \E k \in Keys, d \in AllDurations : Set(1, k, d)
  \/ SetLocked(1)
  \/ \E k \in Keys, d \in AllDurations : Add(1, k, d)
  \/ AddLocked(1)
  \/ AddSet(1)
  \/ \E k \in Keys, d \in AllDurations : Replace(1, k, d)
  \/ ReplaceLocked(1)
  \/ ReplaceSet(1)

SpecSet == InitSet /\ [][NextSet]_vars

\* ------------------------------------------------------------------ C1
\* The entry a Set with a positive time-to-live ttl writes carries the
\* expiration t0 + ttl, t0 being the clock Set read when called; a sweep
\* removes no entry Get would still return; and a Get of a key whose entry
\* such a Set wrote returns (v, true) at every time <= t0 + ttl and
\* not-found at every later time, never the value of an expired entry.
C1_GetWithinTtl ==
  [][ /\ \A p \in Callers, k \in Keys, d \in Durations :
           Set(p, k, d) /\ Resolve(d, defaultExpiration) > 0
             => op'[p].t0 = now
      /\ \A p \in Callers :
           SetLocked(p) /\ Resolve(op[p].d, defaultExpiration) > 0
             => items'[op[p].k] =
                  Item(ValueOf(p), op[p].t0 + Resolve(op[p].d, defaultExpiration))
      /\ \A p \in Tasks :
           DeleteExpiredLocked(p)
             => \A k \in DOMAIN items \ DOMAIN items' : Expired(items[k], now)
      /\ \A p \in Callers :
           GetLocked(p) =>
             LET k == op[p].k IN
               /\ waited[k] # NotSet =>
                    IF now <= items[k].Expiration
                      THEN res'[p].ok /\ res'[p].val = items[k].Object
                      ELSE ~res'[p].ok
               /\ res'[p].ok =>
                    /\ k \in DOMAIN items
                    /\ items[k].Expiration = 0 \/ now <= items[k].Expiration
                    /\ res'[p].val = items[k].Object
    ]_vars

\* A Get has just reported not-found for an entry that a Set with a
\* positive time-to-live wrote, that has expired and that no sweep removed
C1_Witness ==
  \E p \in Callers :
    /\ pc[p] = "idle" /\ res[p].name = "Get" /\ ~res[p].ok
    /\ res[p].k \in DOMAIN items
    /\ waited[res[p].k] # NotSet
    /\ now > items[res[p].k].Expiration

\* C1 as stated: with t the time at which Set stores the entry, Get returns
\* (v, true) at every time <= t + ttl and not-found at every later time
C1_Original ==
  [][ \A p \in Callers :
        GetLocked(p) =>
          LET k == op[p].k IN
            waited[k] # NotSet =>
              IF now <= items[k].Expiration + waited[k]
                THEN res'[p].ok /\ res'[p].val = items[k].Object
                ELSE ~res'[p].ok
    ]_vars

\* ------------------------------------------------------------------ C2
\* All callers have called Add for k at a time when Get(k) would not find
\* k and no caller's Add for k had yet returned, and all have returned
RaceDone(k) ==
  \A p \in Callers :
    pc[p] = "idle" /\ res[p].name = "Add" /\ res[p].k = k /\ res[p].race

Winners == {p \in Callers : res[p].ok}

\* When the concurrent calls Add(k, v_i, ttl) of all callers, made while k
\* was absent or expired, have returned, and the entry a successful call
\* stored has not expired by then, exactly one call has returned success,
\* the others the already-exists error, and k holds the winner's value.
C2_OneWinner ==
  \A k \in Keys :
    (RaceDone(k) /\ \A p \in Winners : res[p].n = 0 \/ now <= res[p].n)
      => /\ Cardinality(Winners) = 1
         /\ \A p \in Winners :
              k \in DOMAIN items /\ items[k] = Item(ValueOf(p), res[p].n)

\* All callers have raced on k with a positive time-to-live: one has won and
\* every other has been refused
C2_Witness ==
  \E k \in Keys :
    /\ RaceDone(k)
    /\ Cardinality(Winners) = 1
    /\ \A p \in Winners : res[p].n > 0 /\ now <= res[p].n

\* C2 as stated: under every interleaving exactly one of the concurrent
\* calls succeeds and k holds its value afterwards
C2_Original ==
  \A k \in Keys :
    RaceDone(k)
      => /\ Cardinality(Winners) = 1
         /\ \A p \in Winners :
              k \in DOMAIN items /\ items[k].Object = ValueOf(p)

\* ------------------------------------------------------------------ C3
\* C3 as stated: every operation releases the lock it acquired on every
\* return path, so the lock is held only by tasks inside a critical
\* section: as many read locks as tasks reading, a write lock only with its
\* holder writing.
C3_LockReleased ==
  /\ mu.r = Cardinality({p \in Tasks : pc[p] = "rcs"})
  /\ mu.w # -1 => pc[mu.w] \in {"wcs", "wset"}

\* ------------------------------------------------------------------ C4
\* A Load whose decode succeeded merges the decoded mapping M: a key of M
\* with a live entry that is not expired keeps that entry, a key of M that
\* is absent or whose entry is expired takes the entry of M, and every key
\* outside M is unchanged.
C4_MergeOnLoad ==
  [][ /\ \A p \in Callers :
           pc'[p] = "wlock" =>
             \A s \in Streams :
               s.valid /\ Load(p, s) => op'[p].m = Decode(s).items
      /\ \A p \in Callers :
           LoadLocked(p) =>
             \A k \in Keys :
               LET live == /\ k \in DOMAIN items
                           /\ items[k].Expiration = 0 \/ now <= items[k].Expiration
               IN  IF k \in DOMAIN op[p].m /\ ~live
                     THEN k \in DOMAIN items' /\ items'[k] = op[p].m[k]
                     ELSE /\ k \in DOMAIN items' <=> k \in DOMAIN items
                          /\ k \in DOMAIN items => items'[k] = items[k]
    ]_vars

\* A Load has returned after installing a decoded entry and after
\* discarding another in favour of the live entry, which it left in place
C4_Witness ==
  \E p \in Callers :
    /\ pc[p] = "idle" /\ res[p].name = "Load" /\ res[p].ok
    /\ res[p].n = 1 /\ res[p].kept = 1
    /\ \E k \in DOMAIN items : items[k].Object = ValueOf(p)

\* ------------------------------------------------------------------ C5
\* Load returns an error exactly when the decode fails; it then returns
\* without touching items or the lock; when the decode succeeds it goes on
\* to the merge and returns no error.
C5_LoadError ==
  [][ /\ \A p \in Callers :
           \A s \in {x \in Streams : ~x.valid} :
             Load(p, s) =>
               /\ pc'[p] = "idle"
               /\ res'[p].name = "Load" /\ ~res'[p].ok
               /\ items' = items /\ mu' = mu
      /\ \A p \in Callers :
           pc'[p] # pc[p] =>
             \A s \in {x \in Streams : x.valid} :
               Load(p, s) => pc'[p] = "wlock" /\ op'[p].name = "Load"
      /\ \A p \in Callers :
           LoadLocked(p) => pc'[p] = "idle" /\ res'[p].name = "Load" /\ res'[p].ok
    ]_vars

\* A Load of a malformed stream has returned its error, the cache holding
\* entries
C5_Witness ==
  \E p \in Callers :
    /\ pc[p] = "idle" /\ res[p].name = "Load" /\ ~res[p].ok
    /\ items # EmptyMap /\ mu = Unlocked

\* ------------------------------------------------------------------ C6
\* Add returns the already-exists error exactly when k is present and not
\* expired at its check, and then leaves items unchanged; otherwise,
\* also when k is present but expired, it stores v with the expiration Set
\* computes for d and returns no error.
C6_Add ==
  [][ /\ \A p \in Callers :
           AddLocked(p) =>
             LET k == op[p].k IN
               IF k \in DOMAIN items
                    /\ (items[k].Expiration = 0 \/ now <= items[k].Expiration)
                 THEN /\ pc'[p] = "idle" /\ res'[p].name = "Add" /\ ~res'[p].ok
                      /\ items' = items
                 ELSE pc'[p] = "wset" /\ items' = items
      /\ \A p \in Callers :
           AddSet(p) =>
             LET k == op[p].k
                 r == IF op[p].d = DefaultExpiration THEN defaultExpiration
                      ELSE op[p].d
             IN  /\ pc'[p] = "idle" /\ res'[p].name = "Add" /\ res'[p].ok
                 /\ DOMAIN items' = DOMAIN items \cup {k}
                 /\ items'[k] = Item(ValueOf(p), IF r > 0 THEN now + r ELSE 0)
                 /\ \A j \in DOMAIN items \ {k} : items'[j] = items[j]
    ]_vars

\* An Add has returned the already-exists error and the key still holds
\* the earlier value, which is not expired
C6_Witness ==
  \E p \in Callers :
    /\ pc[p] = "idle" /\ res[p].name = "Add" /\ ~res[p].ok
    /\ res[p].k \in DOMAIN items
    /\ items[res[p].k].Object # ValueOf(p)
    /\ items[res[p].k].Expiration > 0 /\ now <= items[res[p].k].Expiration

\* ------------------------------------------------------------------ C7
\* Replace returns the not-found error exactly when k is absent or expired
\* at its check, and then leaves items unchanged; otherwise, still holding
\* the lock it made the check under, it stores v with the expiration Set
\* computes for d and returns no error.
C7_Replace ==
  [][ /\ \A p \in Callers :
           ReplaceLocked(p) =>
             LET k == op[p].k IN
               IF k \in DOMAIN items
                    /\ (items[k].Expiration = 0 \/ now <= items[k].Expiration)
                 THEN pc'[p] = "wset" /\ items' = items /\ mu' = mu /\ mu.w = p
                 ELSE /\ pc'[p] = "idle" /\ res'[p].name = "Replace" /\ ~res'[p].ok
                      /\ items' = items
      /\ \A p \in Callers :
           ReplaceSet(p) =>
             LET k == op[p].k
                 r == IF op[p].d = DefaultExpiration THEN defaultExpiration
                      ELSE op[p].d
             IN  /\ mu.w = p
                 /\ pc'[p] = "idle" /\ res'[p].name = "Replace" /\ res'[p].ok
                 /\ k \in DOMAIN items /\ DOMAIN items' = DOMAIN items
                 /\ items'[k] = Item(ValueOf(p), IF r > 0 THEN now + r ELSE 0)
                 /\ \A j \in DOMAIN items \ {k} : items'[j] = items[j]
    ]_vars

\* A Replace has returned the not-found error for a key that is present
\* but expired, and the expired entry is still there
C7_Witness ==
  \E p \in Callers :
    /\ pc[p] = "idle" /\ res[p].name = "Replace" /\ ~res[p].ok
    /\ res[p].k \in DOMAIN items
    /\ items[res[p].k].Expiration # 0 /\ now > items[res[p].k].Expiration

\* ------------------------------------------------------------------ C8
\* Some task's step writes or removes k: a Set, Add, Replace or Delete of k,
\* a Flush or a Load
Writes(k) ==
  \/ \E p \in Callers : SetLocked(p) /\ op[p].k = k
  \/ \E p \in Callers : AddSet(p) /\ op[p].k = k
  \/ \E p \in Callers : ReplaceSet(p) /\ op[p].k = k
  \/ \E p \in Callers : DeleteLocked(p) /\ op[p].k = k
  \/ \E p \in Callers : FlushLocked(p)
  \/ \E p \in Callers : LoadLocked(p)

\* Set(k, v, NoExpiration) stores v with Expiration 0; an entry with
\* Expiration 0 stays as it is through every step that is no write or
\* removal of k, sweeps included, at every time; and Get returns its value.
C8_NoExpiration ==
  [][ /\ \A p \in Callers, k \in Keys :
           Set(p, k, NoExpiration) => op'[p].e = 0
      /\ \A p \in Callers :
           SetLocked(p) =>
             /\ op[p].k \in DOMAIN items'
             /\ items'[op[p].k] = Item(ValueOf(p), op[p].e)
      /\ \A k \in DOMAIN items :
           items[k].Expiration = 0 /\ ~Writes(k)
             => k \in DOMAIN items' /\ items'[k] = items[k]
      /\ \A p \in Callers :
           GetLocked(p) /\ op[p].k \in DOMAIN items
             /\ items[op[p].k].Expiration = 0
             => res'[p].ok /\ res'[p].val = items[op[p].k].Object
    ]_vars

\* At the last instant of the clock, a Get has returned the value of an
\* entry its caller wrote with no expiration
C8_Witness ==
  \E p \in Callers :
    /\ pc[p] = "idle" /\ res[p].name = "Get" /\ res[p].ok
    /\ res[p].val = ValueOf(p)
    /\ items[res[p].k] = Item(ValueOf(p), 0)
    /\ now = MaxTime

\* ------------------------------------------------------------------ C9
\* Set resolves d to r (the default D for DefaultExpiration, d otherwise)
\* and computes the expiration 0 when r <= 0 and now + r otherwise, which
\* is the Expiration it stores; no Set, Add or Replace stores a negative
\* Expiration.
C9_Resolution ==
  [][ /\ \A p \in Callers, k \in Keys, d \in AllDurations :
           Set(p, k, d) =>
             LET r == IF d = DefaultExpiration THEN defaultExpiration ELSE d
             IN  op'[p].e = IF r <= 0 THEN 0 ELSE now + r
      /\ \A p \in Callers :
           SetLocked(p) => items'[op[p].k].Expiration = op[p].e
      /\ \A p \in Callers :
           SetLocked(p) \/ AddSet(p) \/ ReplaceSet(p)
             => items'[op[p].k].Expiration >= 0
    ]_vars

\* Under a default that is not positive, a Set has stored an entry that
\* never expires and then, later, one that expires: the first was called
\* with NoExpiration or DefaultExpiration, the second with a positive d
C9_Witness ==
  \E p \in Callers, k \in DOMAIN items :
    /\ defaultExpiration <= 0
    /\ pc[p] = "idle" /\ res[p].name = "Set" /\ res[p].k # k
    /\ res[p].k \in DOMAIN items
    /\ items[res[p].k] = Item(ValueOf(p), res[p].n)
    /\ res[p].n > now /\ waited[res[p].k] # NotSet
    /\ items[k] = Item(ValueOf(p), 0) /\ now > 0

\* ----------------------------------------------------------------- C10
\* C10 as stated: DeleteExpired with reference time t removes exactly the
\* entries with Expiration # 0 and Expiration < t and leaves every other
\* entry untouched, the count falling by the number of those entries.
C10_SweepExact ==
  [][ \A p \in Tasks :
        DeleteExpiredLocked(p) =>
          LET dead == {k \in DOMAIN items :
                         items[k].Expiration # 0 /\ items[k].Expiration < op[p].t0}
          IN  /\ DOMAIN items' = DOMAIN items \ dead
              /\ \A k \in DOMAIN items' : items'[k] = items[k]
              /\ Cardinality(DOMAIN items')
                   = Cardinality(DOMAIN items) - Cardinality(dead)
    ]_vars

\* ----------------------------------------------------------------- C11
\* Once a StopGc has returned, gcLoop has received the stop signal; from
\* the signal on gcLoop starts no DeleteExpired and never goes back to its
\* select, and it eventually returns, after which it takes no step.
C11_StopTerminates ==
  /\ [](\A p \in Callers :
           res[p].name = "StopGc" => pc[gc] \in {"stop", "done"})
  /\ [][ /\ pc[gc] = "stop" => pc'[gc] \in {"stop", "done"}
         /\ pc[gc] = "done" => pc'[gc] = "done"
         /\ pc[gc] \in {"stop", "done"} => op'[gc] = NoOp /\ mu'.w # gc
       ]_vars
  /\ (pc[gc] = "stop") ~> (pc[gc] = "done")

\* gcLoop has returned after a StopGc and has left an expired entry in the
\* map
C11_Witness ==
  /\ pc[gc] = "done"
  /\ res[2].name = "StopGc" /\ pc[2] = "idle"
  /\ \E k \in DOMAIN items : items[k].Expiration > 0 /\ now > items[k].Expiration

\* ----------------------------------------------------------------- C12
\* C12 as stated: every call of StopGc on a cache with a running sweep
\* task returns: a caller at the send on stopGc eventually gets past it.
C12_StopGcReturns ==
  \A p \in Callers :
    (pc[p] = "send" /\ gcInterval > 0) ~> (pc[p] = "idle")

\* ----------------------------------------------------------------- C13
\* C13 as stated: whatever the gcInterval given to NewCache, the sweep task
\* never reaches the panicked state.
C13_NoPanic == pc[gc] # "panic"

C15_CountStructural ==
  [][ \A p \in Callers :
        /\ CountLocked(p) =>
             res'[p].n = Cardinality(DOMAIN items) /\ items' = items
        /\ GetLocked(p) => items' = items
        /\ SaveLocked(p) => items' = items
    ]_vars

\* A Get has reported not-found for a key whose expired entry is still in
\* the map, the only one there, and a Save has returned since
C15_Witness ==
  /\ pc[1] = "idle" /\ res[1].name = "Get" /\ ~res[1].ok
  /\ DOMAIN items = {res[1].k}
  /\ items[res[1].k].Expiration > 0 /\ now > items[res[1].k].Expiration
  /\ res[2].name = "Save"

\* ----------------------------------------------------------------- C16
\* Delete(k) returns, with no error to report, leaving the map without k
\* and every other key as it was; a Delete of k on the map it leaves
\* changes nothing.
C16_Delete ==
  [][ \A p \in Callers :
        DeleteLocked(p) =>
          LET k == op[p].k IN
            /\ pc'[p] = "idle" /\ res'[p].name = "Delete" /\ res'[p].ok
            /\ DOMAIN items' = DOMAIN items \ {k}
            /\ \A j \in DOMAIN items' : items'[j] = items[j]
            /\ delete(items', k) = items'
    ]_vars

\* A Delete has returned, its key is not in the map and the other key is
C16_Witness ==
  \E p \in Callers :
    /\ pc[p] = "idle" /\ res[p].name = "Delete"
    /\ res[p].k \notin DOMAIN items
    /\ DOMAIN items = Keys \ {res[p].k}

\* ----------------------------------------------------------------- C17
\* While a task holds the write lock (in Set, Add, Replace, Delete,
\* DeleteExpired, Flush or the merge of Load) no other task is in a
\* section that reads or writes items, Save's encoding included.
C17_MutualExclusion ==
  \A p \in Tasks :
    pc[p] \in {"wcs", "wset"} =>
      /\ mu.w = p
      /\ \A q \in Tasks \ {p} : pc[q] \notin {"wcs", "wset", "rcs"}

\* The gc goroutine sweeps under the write lock while a Load waits to
\* merge and a Save waits to encode
C17_Witness ==
  /\ pc[gc] = "wcs"
  /\ pc[1] = "wlock" /\ op[1].name = "Load"
  /\ pc[2] = "rlock" /\ op[2].name = "Save"

\* ----------------------------------------------------------------- C18
\* Every entry a DeleteExpired removes, whenever it captured its reference
\* time and whatever was written before it got the lock, has an Expiration
\* that is not 0 and is earlier than the time of the removal.
C18_SweepOnlyExpired ==
  [][ \A p \in Tasks :
        DeleteExpiredLocked(p) =>
          /\ op[p].t0 <= now
          /\ \A k \in DOMAIN items \ DOMAIN items' :
               items[k].Expiration # 0 /\ items[k].Expiration < now
    ]_vars

\* A DeleteExpired has returned after removing one entry and has left the
\* other, which is at its deadline and not expired
C18_Witness ==
  \E p \in Callers :
    /\ pc[p] = "idle" /\ res[p].name = "DeleteExpired" /\ res[p].n = 1
    /\ \E k \in DOMAIN items :
         /\ DOMAIN items = {k}
         /\ items[k].Expiration > 0 /\ now = items[k].Expiration

\* ----------------------------------------------------------------- C19
\* The Expiration a Set with a positive resolved duration r stores is the
\* time the Set read the clock, before it took the lock, plus r: it is the
\* time of the write plus r less the time the Set spent on the way to the
\* write.
C19_ExpirationFromCall ==
  [][ \A p \in Callers :
        LET r == IF op[p].d = DefaultExpiration THEN defaultExpiration
                 ELSE op[p].d
        IN  SetLocked(p) /\ r > 0 =>
              /\ op[p].t0 <= now
              /\ waited'[op[p].k] = now - op[p].t0
              /\ items'[op[p].k].Expiration = now + r - waited'[op[p].k]
    ]_vars

\* A Set has returned from writing an entry whose Expiration lay before
\* the time of the write
C19_Witness ==
  \E p \in Callers :
    /\ pc[p] = "idle" /\ res[p].name = "Set"
    /\ res[p].k \in DOMAIN items
    /\ waited[res[p].k] # NotSet
    /\ items[res[p].k].Expiration = res[p].n
    /\ waited[res[p].k] > items[res[p].k].Expiration

\* C19 as stated: the Expiration a Set with a positive resolved duration r
\* stores is the time of the write plus r, so the entry is not expired
\* when it is written.
C19_Original ==
  [][ \A p \in Callers :
        LET r == IF op[p].d = DefaultExpiration THEN defaultExpiration
                 ELSE op[p].d
        IN  SetLocked(p) /\ r > 0 =>
              /\ items'[op[p].k].Expiration = now + r
              /\ now <= items'[op[p].k].Expiration
    ]_vars

\* ----------------------------------------------------------------- C20
\* C20 as stated: with a sweep task that runs and is not stopped, an entry
\* that is in items and expired is eventually out of items, or replaced by
\* an entry that is not expired.
C20_Reclaimed ==
  \A k \in Keys :
    (gcInterval > 0 /\ k \in DOMAIN items /\ Expired(items[k], now))
      ~> \/ k \notin DOMAIN items
         \/ ~Expired(items[k], now)
         \/ pc[gc] \in {"stop", "done"}
====
